---- MODULE Spec2Model ----
(***************************************************************************)
(* Model of Payment/payment_checker.py: the direct-debit Lambda handler.   *)
(*                                                                         *)
(* The handler of one SQS record parses the message, posts one debit       *)
(* request to the provider, and writes the outcome to two MySQL tables     *)
(* (TBL_DEBITHISTORY, TBL_USER_PAYMENT) through execution_query, which     *)
(* swallows every storage error.  Invocations run in separate processes,   *)
(* each with its own cached MySQL connection; they interleave at the       *)
(* statements they commit.                                                 *)
(*                                                                         *)
(* Python strings that the code inspects character by character (amount,   *)
(* direct_debit_id, the values interpolated in SQL) are sequences of       *)
(* one-character strings.                                                  *)
(***************************************************************************)
EXTENDS Integers, Sequences, FiniteSets, Bags, TLC

VARIABLES
    tbl_user_payment,   \* TBL_USER_PAYMENT: row id -> billing row
    tbl_debithistory,   \* TBL_DEBITHISTORY: bag of inserted rows
    mysql_connection,   \* per process: the cached _mysql_connection
    pc,                 \* per process: position in lambda_handler
    event,              \* per process: event["Records"] of the current invocation
    parsed,             \* per process: what parse_message returned or raised
    response,           \* per process: what send_request_debit returned or raised
    calls,              \* per process: the external calls of the current invocation, in order
    result,             \* per process: what lambda_handler returned or raised
    pending_at_start,   \* per process: rows of the message's key that were PENDING at entry
    invocations         \* number of invocations started so far

vars == <<tbl_user_payment, tbl_debithistory, mysql_connection, pc, event,
          parsed, response, calls, result, pending_at_start, invocations>>

----------------------------------------------------------------------------
(* Bounds of the model *)

\* invocations of lambda_handler over all processes
MaxInvocations == 2
\* rows of TBL_USER_PAYMENT
NumRows == 2

\* the Lambda processes (execution environments)
Procs == {"p1", "p2"}

----------------------------------------------------------------------------
(* Program constants, payment_checker.py lines 38-43 *)

SUCCESS_FLAG == 1
FAULT_FLAG == 2
BILLING_FLAG_PENDING == "1"
BILLING_FLAG_FINISHED == "2"
SETTLEMENT_SUCCESS == "1"
SETTLEMENT_FAILURE == "2"

\* Settlement_FLG and Error_Comment of a row no invocation has written yet
NOT_SETTLED == "0"
NO_COMMENT == <<>>

\* json.dumps("error: APIRequest...") : the body of ERROR_CODE_REQUEST (the
\* source text is Japanese: "APIRequest ni shippai shimashita")
ERROR_CODE_REQUEST ==
    [kind |-> "return", statusCode |-> 500, body |-> "error: APIRequest failed"]

\* the response of the success path, lines 82-85, with success_count = 1 and
\* len(records) = 1
SuccessResponse ==
    [kind |-> "return", statusCode |-> 200,
     body |-> "successed success_count / num_records = 1 / 1"]

\* an exception that leaves lambda_handler
Escaped(exc) == [kind |-> "raise", statusCode |-> 0, body |-> exc]

NoResult == [kind |-> "none", statusCode |-> 0, body |-> ""]

----------------------------------------------------------------------------
(* JSON values of the message body *)

Absent == [t |-> "absent"]
Null == [t |-> "null"]
Str(s) == [t |-> "str", v |-> s]
Num(n) == [t |-> "int", n |-> n]

required_fields ==
    <<"billing_id", "merchant_code", "user_code", "direct_debit_id", "amount">>

Digits == <<"0", "1", "2", "3", "4", "5", "6", "7", "8", "9">>
IsDigit(c) == \E i \in 1..10 : Digits[i] = c
DigitVal(c) == (CHOOSE i \in 1..10 : Digits[i] = c) - 1

AllDigits(s) == \A i \in 1..Len(s) : IsDigit(s[i])

RECURSIVE DigitsValue(_)
DigitsValue(s) ==
    IF s = <<>> THEN 0
    ELSE 10 * DigitsValue(SubSeq(s, 1, Len(s) - 1)) + DigitVal(s[Len(s)])

HasSign(s) == Len(s) > 0 /\ s[1] \in {"+", "-"}
Unsigned(s) == IF HasSign(s) THEN Tail(s) ELSE s
IsNegative(s) == Len(s) > 0 /\ s[1] = "-"

DotAt(s) == IF \E i \in 1..Len(s) : s[i] = "."
            THEN CHOOSE i \in 1..Len(s) : s[i] = "." /\ \A j \in 1..(i - 1) : s[j] # "."
            ELSE 0

\* float(s) for a str s: an optional sign, then "inf", "nan", or digits with
\* at most one point and at least one digit.  The result keeps the sign and
\* the integer part, which is all that int() reads; it is exact for the
\* texts of the model, which have far fewer than the 15 significant digits
\* a double holds.  (Exponents, blanks and underscores are outside the inputs
\* of the model.)
PyFloat(s) ==
    LET u == Unsigned(s)
        d == DotAt(u)
        ip == IF d = 0 THEN u ELSE SubSeq(u, 1, d - 1)
        fp == IF d = 0 THEN <<>> ELSE SubSeq(u, d + 1, Len(u))
    IN  IF u \in {<<"i", "n", "f">>, <<"n", "a", "n">>}
        THEN [ok |-> TRUE, neg |-> IsNegative(s), int |-> 0, special |-> u[1]]
        ELSE IF AllDigits(ip) /\ AllDigits(fp) /\ Len(ip) + Len(fp) > 0
        THEN [ok |-> TRUE, neg |-> IsNegative(s), int |-> DigitsValue(ip), special |-> ""]
        ELSE [ok |-> FALSE, neg |-> FALSE, int |-> 0, special |-> ""]

\* rounding down in place of truncation
PyFloorOfFloat(f) == IF f.neg THEN 0 - f.int - 1 ELSE f.int

\* int(x) for a float x: truncation toward zero
PyIntOfFloat(f) == IF f.neg THEN 0 - f.int ELSE f.int

RECURSIVE NatToStr(_)
NatToStr(n) ==
    IF n < 10 THEN <<Digits[n + 1]>>
    ELSE NatToStr(n \div 10) \o <<Digits[(n % 10) + 1]>>

\* str(n) for an int n
PyStr(n) == IF n < 0 THEN <<"-">> \o NatToStr(0 - n) ELSE NatToStr(n)

\* int(s) for a str s: an optional sign and at least one digit
PyInt(s) ==
    LET u == Unsigned(s)
    IN  IF Len(u) > 0 /\ AllDigits(u)
        THEN [ok |-> TRUE, n |-> IF IsNegative(s) THEN 0 - DigitsValue(u) ELSE DigitsValue(u)]
        ELSE [ok |-> FALSE, n |-> 0]

----------------------------------------------------------------------------
(* parse_message and get_request_body *)

\* the dict json.loads returns: field name -> JSON value, Absent when the key
\* is not in the dict
Dict(b, m, u, d, a) ==
    [billing_id |-> b, merchant_code |-> m, user_code |-> u,
     direct_debit_id |-> d, amount |-> a]

\* a record body that json.loads accepts / rejects
JsonBody(data) == [json |-> TRUE, data |-> data]
InvalidJson == [json |-> FALSE, data |-> Dict(Absent, Absent, Absent, Absent, Absent)]

ParseOk(data, amount) ==
    [ok |-> TRUE, error |-> "", field |-> "",
     billing_id |-> data.billing_id, merchant_code |-> data.merchant_code,
     user_code |-> data.user_code, direct_debit_id |-> data.direct_debit_id,
     amount |-> amount]

\* parse_message raised ValueError(error), naming field
ParseError(error, field) ==
    [ok |-> FALSE, error |-> error, field |-> field,
     billing_id |-> Absent, merchant_code |-> Absent, user_code |-> Absent,
     direct_debit_id |-> Absent, amount |-> <<>>]

NotParsed == ParseError("not parsed", "")

\* the loop without the test of line 102
FirstAbsentField(data) ==
    IF \E i \in 1..Len(required_fields) : data[required_fields[i]] = Absent
    THEN CHOOSE i \in 1..Len(required_fields) :
            /\ data[required_fields[i]] = Absent
            /\ \A j \in 1..(i - 1) : data[required_fields[j]] # Absent
    ELSE 0

\* the loop run from the last field to the first
LastBadField(data) ==
    IF \E i \in 1..Len(required_fields) : data[required_fields[i]] \in {Absent, Null}
    THEN CHOOSE i \in 1..Len(required_fields) :
            /\ data[required_fields[i]] \in {Absent, Null}
            /\ \A j \in (i + 1)..Len(required_fields) :
                  data[required_fields[j]] \notin {Absent, Null}
    ELSE 0

\* the first required field, in the order of the loop, that is absent or null
\* (0 when there is none)
FirstBadField(data) ==
    IF \E i \in 1..Len(required_fields) : data[required_fields[i]] \in {Absent, Null}
    THEN CHOOSE i \in 1..Len(required_fields) :
            /\ data[required_fields[i]] \in {Absent, Null}
            /\ \A j \in 1..(i - 1) : data[required_fields[j]] \notin {Absent, Null}
    ELSE 0

\* str(int(float(raw_amount))), lines 105-110: float() raises ValueError on
\* a text that is no number, int() raises ValueError on nan and
\* OverflowError on an infinity; the except clause catches ValueError only
ConvertAmount(raw) ==
    IF raw.t = "int" THEN [ok |-> TRUE, exc |-> "", s |-> PyStr(raw.n)]
    ELSE LET f == PyFloat(raw.v)
         IN  IF ~f.ok \/ f.special = "n"
             THEN [ok |-> FALSE, exc |-> "ValueError", s |-> <<>>]
             ELSE IF f.special = "i"
             THEN [ok |-> FALSE, exc |-> "OverflowError", s |-> <<>>]
             ELSE [ok |-> TRUE, exc |-> "", s |-> PyStr(PyIntOfFloat(f))]

parse_message(record) ==
    IF ~record.json THEN ParseError("Invalid JSON format", "")
    ELSE LET data == record.data
             bad == FirstBadField(data)
         IN  IF bad # 0
             THEN IF data[required_fields[bad]] = Absent
                  THEN ParseError("Missing required field", required_fields[bad])
                  ELSE ParseError("cannot be null", required_fields[bad])
             ELSE LET a == ConvertAmount(data.amount)
                  IN  IF a.ok THEN ParseOk(data, a.s)
                      ELSE IF a.exc = "ValueError"
                      THEN ParseError("Invalid amount", "amount")
                      ELSE ParseError(a.exc, "amount")

\* get_request_body: int(direct_debit_id) and int(total_amount); either
\* raises ValueError on a string that is no integer
get_request_body(direct_debit_id, total_amount) ==
    LET c == IF direct_debit_id.t = "int"
             THEN [ok |-> TRUE, n |-> direct_debit_id.n]
             ELSE PyInt(direct_debit_id.v)
        a == PyInt(total_amount)
    IN  IF c.ok /\ a.ok
        THEN [ok |-> TRUE, customer_id |-> c.n, amount |-> a.n, tax |-> 0,
              ship_fee |-> 0, transfer_type |-> 1, status |-> 1]
        ELSE [ok |-> FALSE, customer_id |-> 0, amount |-> 0, tax |-> 0,
              ship_fee |-> 0, transfer_type |-> 1, status |-> 1]

----------------------------------------------------------------------------
(* The messages the queue delivers *)

M1 == Str(<<"m", "1">>)
M2 == Str(<<"m", "2">>)
MQuote == Str(<<"m", "'">>)
U1 == Str(<<"u", "1">>)
B1 == Str(<<"b", "1">>)
D42 == Str(<<"4", "2">>)

Valid(m, a) == JsonBody(Dict(B1, m, U1, D42, a))

Messages ==
    { Valid(M1, Str(<<"5", "0", "0", ".", "0", "0">>)),
      Valid(MQuote, Str(<<"-", "7", ".", "5">>)),
      InvalidJson,
      JsonBody(Dict(B1, M1, Absent, D42, Str(<<"1">>))),
      JsonBody(Dict(B1, Null, U1, D42, Str(<<"1">>))),
      Valid(M1, Str(<<"a", "b", "c">>)),
      JsonBody(Dict(B1, M1, U1, Str(<<"d", "1">>), Str(<<"1">>))) }

\* event["Records"]: the queue is configured to deliver one record, and the
\* handler asserts it
Events == {<<>>} \cup {<<m>> : m \in Messages}
          \cup {<<m, InvalidJson>> : m \in {Valid(M1, Num(1))}}

----------------------------------------------------------------------------
(* The provider's answers to requests.post *)

\* a requests.Response: ok is the HTTP status, json whether the body parses,
\* has_status / has_ec whether body["status"] / body["err"]["ec"] exist
Resp(ok, json, has_status, status, has_ec, ec) ==
    [raised |-> FALSE, ok |-> ok, json |-> json, has_status |-> has_status,
     status |-> status, has_ec |-> has_ec, ec |-> ec]

\* requests.post raised (connection refused, timeout, DNS)
TransportError ==
    [raised |-> TRUE, ok |-> FALSE, json |-> FALSE, has_status |-> FALSE,
     status |-> 0, has_ec |-> FALSE, ec |-> <<>>]

NoResponse ==
    [raised |-> FALSE, ok |-> FALSE, json |-> FALSE, has_status |-> FALSE,
     status |-> 0, has_ec |-> FALSE, ec |-> <<>>]

E001 == <<"E", "0", "0", "1">>
EQuote == <<"E", "'">>

Responses ==
    { TransportError,
      Resp(TRUE, TRUE, TRUE, SUCCESS_FLAG, FALSE, <<>>),
      Resp(TRUE, TRUE, TRUE, FAULT_FLAG, FALSE, <<>>),
      Resp(TRUE, TRUE, FALSE, 0, FALSE, <<>>),
      Resp(TRUE, FALSE, FALSE, 0, FALSE, <<>>),
      Resp(FALSE, TRUE, TRUE, FAULT_FLAG, TRUE, E001),
      Resp(FALSE, TRUE, FALSE, 0, TRUE, EQuote),
      Resp(FALSE, TRUE, TRUE, FAULT_FLAG, FALSE, <<>>),
      Resp(FALSE, FALSE, FALSE, 0, FALSE, <<>>) }

\* a raise_for_status that never raises
RaiseForStatusSilent(r) == FALSE

\* response.raise_for_status() raises HTTPError exactly when response.ok is
\* False
RaiseForStatus(r) == ~r.ok

\* the comparison with the wrong flag
StatusIsFault(r) == r.status = FAULT_FLAG

\* response_json['status'] == SUCCESS_FLAG
StatusIsSuccess(r) == r.status = SUCCESS_FLAG

----------------------------------------------------------------------------
(* The SQL statements and execution_query *)

\* str(None)
NoneText == <<"N", "o", "n", "e">>

\* the text an f-string gives for a value
Interp(v) ==
    CASE v.t = "str" -> v.v
      [] v.t = "int" -> PyStr(v.n)
      [] OTHER -> NoneText

\* str(data.get('status'))
StatusText(r) == IF r.has_status THEN PyStr(r.status) ELSE NoneText

HasQuote(s) == \E i \in 1..Len(s) : s[i] = "'"

InsertStmt(r, merchant_code, user_code) ==
    [op |-> "insert_debit_history", merchant_code |-> Interp(merchant_code),
     user_code |-> Interp(user_code), text |-> StatusText(r)]

SettledStmt(merchant_code, user_code) ==
    [op |-> "update_billing_to_settled", merchant_code |-> Interp(merchant_code),
     user_code |-> Interp(user_code), text |-> <<>>]

ErrorStmt(merchant_code, user_code, error) ==
    [op |-> "update_billing_error", merchant_code |-> Interp(merchant_code),
     user_code |-> Interp(user_code), text |-> error]

\* the values are interpolated between single quotes: a value that holds a
\* quote ends the literal early and the server rejects the statement
WellFormed(stmt) ==
    ~HasQuote(stmt.merchant_code) /\ ~HasQuote(stmt.user_code) /\ ~HasQuote(stmt.text)

\* the WHERE clause without its Billing_FLG condition
UpdateWhereAnyFlag(row, stmt) ==
    /\ row.Merchant_Code = stmt.merchant_code
    /\ row.User_Code = stmt.user_code

\* the WHERE clause of both UPDATE statements
UpdateWhere(row, stmt) ==
    /\ row.Merchant_Code = stmt.merchant_code
    /\ row.User_Code = stmt.user_code
    /\ row.Billing_FLG = BILLING_FLAG_PENDING

\* the SET clause of update_billing_to_settled / update_billing_error
UpdateSet(row, stmt) ==
    IF stmt.op = "update_billing_to_settled"
    THEN [row EXCEPT !.Billing_FLG = BILLING_FLAG_FINISHED,
                     !.Settlement_FLG = SETTLEMENT_SUCCESS]
    ELSE [row EXCEPT !.Billing_FLG = BILLING_FLAG_FINISHED,
                     !.Settlement_FLG = SETTLEMENT_FAILURE,
                     !.Error_Comment = stmt.text]

RowsMatched(tbl, stmt) ==
    IF stmt.op = "insert_debit_history" THEN {}
    ELSE {i \in DOMAIN tbl : UpdateWhere(tbl[i], stmt)}

\* TBL_USER_PAYMENT after the statement is executed and committed
PaymentAfter(tbl, stmt) ==
    [i \in DOMAIN tbl |-> IF i \in RowsMatched(tbl, stmt) THEN UpdateSet(tbl[i], stmt)
                          ELSE tbl[i]]

\* TBL_DEBITHISTORY after the statement is executed and committed
HistoryAfter(hist, stmt) ==
    IF stmt.op = "insert_debit_history"
    THEN hist (+) SetToBag({[Merchant_Code |-> stmt.merchant_code,
                             User_Code |-> stmt.user_code, status |-> stmt.text]})
    ELSE hist

\* a get_mysql_connection that tests the global for None only
NeedsConnectWhenNone(conn) == conn = "none"

\* get_mysql_connection: the cached connection is returned when it is open,
\* otherwise pymysql.connect is called
NeedsConnect(conn) == ~(conn = "open")

\* what can happen inside execution_query's try block: pymysql.connect,
\* cursor.execute or connection.commit raises, or all three succeed
QueryOutcomes(conn, stmt) ==
    (IF NeedsConnect(conn) THEN {"connect_fail"} ELSE {})
    \cup (IF WellFormed(stmt) THEN {"ok", "execute_fail", "commit_fail"}
          ELSE {"syntax_error"})

\* _mysql_connection after the call: a failed connect leaves the global as
\* it was, a connection lost in execute or commit is closed, a statement the
\* server rejects leaves the connection open
ConnectionAfter(conn, outcome) ==
    CASE outcome = "connect_fail" -> conn
      [] outcome \in {"execute_fail", "commit_fail"} -> "closed"
      [] OTHER -> "open"

\* the statement took effect: connect, execute and commit all succeeded
Committed(outcome) == outcome = "ok"

\* an execution_query that reports failure only when no connection was made
ExecutionQueryTrueAfterConnect(outcome) == outcome # "connect_fail"

\* execution_query's return value: True after the commit, False from the
\* except branch
execution_query(outcome) == outcome = "ok"

\* an execution_query that lets the storage error through
ExecutionQueryPropagates(outcome) == outcome # "ok"

\* whether an exception leaves execution_query: its except branch catches
\* every Exception and returns False
ExecutionQueryRaises(outcome) == FALSE

----------------------------------------------------------------------------
(* The initial state *)

Row(m, u) ==
    [Merchant_Code |-> m, User_Code |-> u, Billing_FLG |-> BILLING_FLAG_PENDING,
     Settlement_FLG |-> NOT_SETTLED, Error_Comment |-> NO_COMMENT]

\* the billing rows are created upstream, PENDING; nothing in the schema
\* that the code shows makes (Merchant_Code, User_Code) unique.  A table has
\* no order: the rows of M1 are listed before the rows of M2.
InitialTables ==
    {t \in [1..NumRows -> {Row(M1.v, U1.v), Row(M2.v, U1.v)}] :
        \A i, j \in 1..NumRows : (i < j /\ t[j] = Row(M1.v, U1.v)) => t[i] = Row(M1.v, U1.v)}

Init ==
    /\ tbl_user_payment \in InitialTables
    /\ tbl_debithistory = EmptyBag
    /\ mysql_connection = [p \in Procs |-> "none"]
    /\ pc = [p \in Procs |-> "idle"]
    /\ event = [p \in Procs |-> <<>>]
    /\ parsed = [p \in Procs |-> NotParsed]
    /\ response = [p \in Procs |-> NoResponse]
    /\ calls = [p \in Procs |-> <<>>]
    /\ result = [p \in Procs |-> NoResult]
    /\ pending_at_start = [p \in Procs |-> {}]
    /\ invocations = 0

----------------------------------------------------------------------------
(* lambda_handler, one action per external effect *)

\* lambda_handler has returned r, or an exception has left it
Finish(p, r) ==
    /\ pc' = [pc EXCEPT ![p] = "done"]
    /\ result' = [result EXCEPT ![p] = r]

\* an except branch that re-raises
ExceptReraise(p) == Finish(p, Escaped("Exception"))

\* lines 78-80: except Exception, return ERROR_CODE_REQUEST
Except(p) == Finish(p, ERROR_CODE_REQUEST)

Goto(p, label) ==
    /\ pc' = [pc EXCEPT ![p] = label]
    /\ UNCHANGED result

\* one call of execution_query(stmt) by p, with its entry in the call log
Execute(p, stmt, outcome) ==
    LET done == execution_query(outcome)
    IN  /\ outcome \in QueryOutcomes(mysql_connection[p], stmt)
        /\ mysql_connection' =
              [mysql_connection EXCEPT ![p] = ConnectionAfter(@, outcome)]
        /\ tbl_user_payment' =
              IF Committed(outcome) THEN PaymentAfter(tbl_user_payment, stmt)
              ELSE tbl_user_payment
        /\ tbl_debithistory' =
              IF Committed(outcome) THEN HistoryAfter(tbl_debithistory, stmt)
              ELSE tbl_debithistory
        /\ calls' = [calls EXCEPT ![p] = Append(@,
              [op |-> stmt.op, merchant_code |-> stmt.merchant_code,
               user_code |-> stmt.user_code, text |-> stmt.text,
               done |-> done,
               opened |-> NeedsConnect(mysql_connection[p]) /\ outcome # "connect_fail",
               rows |-> IF ~Committed(outcome) THEN 0
                        ELSE IF stmt.op = "insert_debit_history" THEN 1
                        ELSE Cardinality(RowsMatched(tbl_user_payment, stmt))])]

\* lines 50-58: the assertion on the number of records, parse_message and
\* get_request_body.  The assertion is outside the try block.
LambdaStart(p, records) ==
    /\ pc[p] \in {"idle", "done"}
    /\ invocations < MaxInvocations
    /\ invocations' = invocations + 1
    /\ event' = [event EXCEPT ![p] = records]
    /\ calls' = [calls EXCEPT ![p] = <<>>]
    /\ response' = [response EXCEPT ![p] = NoResponse]
    /\ UNCHANGED <<tbl_user_payment, tbl_debithistory, mysql_connection>>
    /\ IF Len(records) # 1
       THEN /\ Finish(p, Escaped("AssertionError"))
            /\ parsed' = [parsed EXCEPT ![p] = NotParsed]
            /\ pending_at_start' = [pending_at_start EXCEPT ![p] = {}]
       ELSE LET m == parse_message(records[1])
            IN  /\ parsed' = [parsed EXCEPT ![p] = m]
                /\ pending_at_start' = [pending_at_start EXCEPT ![p] =
                      IF m.ok
                      THEN RowsMatched(tbl_user_payment,
                                       SettledStmt(m.merchant_code, m.user_code))
                      ELSE {}]
                /\ IF m.ok /\ get_request_body(m.direct_debit_id, m.amount).ok
                   THEN Goto(p, "send_request_debit")
                   ELSE Except(p)

\* a handler that asks the provider again after a transport error
AfterResponseRetry(r) ==
    IF r.raised THEN "send_request_debit"
    ELSE IF ~r.json THEN "except"
    ELSE IF ~r.ok
         THEN IF r.has_ec THEN "update_billing_error_ec" ELSE "except"
         ELSE "insert_debit_history"

\* a handler that updates the billing record without recording history first
AfterResponseUpdateFirst(r) ==
    IF r.raised \/ ~r.json THEN "except"
    ELSE IF ~r.ok
         THEN IF r.has_ec THEN "update_billing_error_ec" ELSE "except"
         ELSE IF StatusIsSuccess(r) THEN "update_billing_to_settled"
         ELSE "update_billing_error"

\* a handler that marks the billing record failed on a transport error too
AfterResponseMarksFailed(r) ==
    IF r.raised THEN "update_billing_error_ec"
    ELSE IF ~r.json THEN "except"
    ELSE IF ~r.ok
         THEN IF r.has_ec THEN "update_billing_error_ec" ELSE "except"
         ELSE "insert_debit_history"

\* a handler that records history before it tests response.ok
AfterResponseHistoryFirst(r) ==
    IF r.raised \/ ~r.json THEN "except" ELSE "insert_debit_history"

\* lines 59-67, where the handler goes with what send_request_debit gave:
\* send_request_debit re-raises what requests.post raised, response.json()
\* raises on a body that is not JSON, response_json['err']['ec'] raises
\* KeyError when the key is missing
AfterResponse(r) ==
    IF r.raised \/ ~r.json THEN "except"
    ELSE IF ~r.ok
         THEN IF r.has_ec THEN "update_billing_error_ec" ELSE "except"
         ELSE "insert_debit_history"

\* lines 59-63: send_request_debit, response.json() and, for a response that
\* is not ok, the read of err.ec
SendRequestDebit(p, r) ==
    /\ pc[p] = "send_request_debit"
    /\ response' = [response EXCEPT ![p] = r]
    /\ calls' = [calls EXCEPT ![p] = Append(@,
          [op |-> "send_request_debit", merchant_code |-> <<>>, user_code |-> <<>>,
           text |-> <<>>, done |-> ~r.raised, opened |-> FALSE, rows |-> 0])]
    /\ UNCHANGED <<tbl_user_payment, tbl_debithistory, mysql_connection, event,
                   parsed, pending_at_start, invocations>>
    /\ IF AfterResponse(r) = "except" THEN Except(p) ELSE Goto(p, AfterResponse(r))

\* lines 64-65: update_billing_error(merchant_code, user_code, ec), then
\* response.raise_for_status()
UpdateBillingErrorRejected(p, outcome) ==
    /\ pc[p] = "update_billing_error_ec"
    /\ Execute(p, ErrorStmt(parsed[p].merchant_code, parsed[p].user_code,
                            response[p].ec), outcome)
    /\ UNCHANGED <<event, parsed, response, pending_at_start, invocations>>
    /\ IF ExecutionQueryRaises(outcome) \/ RaiseForStatus(response[p])
       THEN Except(p)
       ELSE Goto(p, "insert_debit_history")

\* lines 67-69: insert_debit_history(response_json, ...), then the read of
\* response_json['status']
InsertDebitHistory(p, outcome) ==
    /\ pc[p] = "insert_debit_history"
    /\ Execute(p, InsertStmt(response[p], parsed[p].merchant_code,
                             parsed[p].user_code), outcome)
    /\ UNCHANGED <<event, parsed, response, pending_at_start, invocations>>
    /\ IF ExecutionQueryRaises(outcome) \/ ~response[p].has_status
       THEN Except(p)
       ELSE IF StatusIsSuccess(response[p])
            THEN Goto(p, "update_billing_to_settled")
            ELSE Goto(p, "update_billing_error")

\* lines 70, 75-76, 82-85: update_billing_to_settled, the sleep and the
\* success response
UpdateBillingToSettled(p, outcome) ==
    /\ pc[p] = "update_billing_to_settled"
    /\ Execute(p, SettledStmt(parsed[p].merchant_code, parsed[p].user_code), outcome)
    /\ UNCHANGED <<event, parsed, response, pending_at_start, invocations>>
    /\ IF ExecutionQueryRaises(outcome)
       THEN Except(p)
       ELSE Finish(p, SuccessResponse)

\* the provider's code in place of the literal
MarkerFromResponse == NoneText

\* line 72: the literal "error"
LogicalErrorMarker == <<"e", "r", "r", "o", "r">>

\* lines 72-73: update_billing_error(merchant_code, user_code, "error"), then
\* raise ValueError
UpdateBillingErrorLogical(p, outcome) ==
    /\ pc[p] = "update_billing_error"
    /\ Execute(p, ErrorStmt(parsed[p].merchant_code, parsed[p].user_code,
                            LogicalErrorMarker), outcome)
    /\ UNCHANGED <<event, parsed, response, pending_at_start, invocations>>
    /\ Except(p)

QueryResults == {"ok", "connect_fail", "execute_fail", "commit_fail", "syntax_error"}

Next ==
    \/ \E p \in Procs, records \in Events : LambdaStart(p, records)
    \/ \E p \in Procs, r \in Responses : SendRequestDebit(p, r)
    \/ \E p \in Procs, o \in QueryResults : UpdateBillingErrorRejected(p, o)
    \/ \E p \in Procs, o \in QueryResults : InsertDebitHistory(p, o)
    \/ \E p \in Procs, o \in QueryResults : UpdateBillingToSettled(p, o)
    \/ \E p \in Procs, o \in QueryResults : UpdateBillingErrorLogical(p, o)

Spec == Init /\ [][Next]_vars

----------------------------------------------------------------------------
(* What the claims speak of *)

\* the positions in p's call log of the calls of op
CallsOf(p, op) == {k \in DOMAIN calls[p] : calls[p][k].op = op}

NumCalls(p, op) == Cardinality(CallsOf(p, op))

\* p's invocation has ended
Ended(p) == pc[p] = "done"

\* the provider answered p's request with an HTTP response whose body is JSON
Answered(p) == ~response[p].raised /\ response[p].json /\ NumCalls(p, "send_request_debit") = 1

\* ... HTTP-ok with body status = 1
AnsweredSuccess(p) ==
    Answered(p) /\ response[p].ok /\ response[p].has_status
    /\ response[p].status = SUCCESS_FLAG

\* ... HTTP-ok with a body status other than 1
AnsweredFailure(p) ==
    Answered(p) /\ response[p].ok /\ response[p].has_status
    /\ response[p].status # SUCCESS_FLAG

\* ... not ok, with err.ec in the body
AnsweredRejected(p) == Answered(p) /\ ~response[p].ok /\ response[p].has_ec

IsSuccess(r) == r.kind = "return" /\ r.statusCode = 200
IsFailure(r) == r.kind = "return" /\ r.statusCode = 500

----------------------------------------------------------------------------
\* C1: an invocation with one record that parses, answered HTTP-ok with body
\* status 1, calls insert_debit_history once, then update_billing_to_settled
\* once, never update_billing_error, and returns statusCode 200.
C1_SuccessPath ==
    \A p \in Procs :
        (Ended(p) /\ Len(event[p]) = 1 /\ parsed[p].ok /\ AnsweredSuccess(p)) =>
            /\ NumCalls(p, "insert_debit_history") = 1
            /\ NumCalls(p, "update_billing_to_settled") = 1
            /\ \A i \in CallsOf(p, "insert_debit_history"),
                  j \in CallsOf(p, "update_billing_to_settled") : i < j
            /\ NumCalls(p, "update_billing_error") = 0
            /\ IsSuccess(result[p])

C1_Witness ==
    \E p \in Procs :
        /\ Ended(p) /\ Len(event[p]) = 1 /\ parsed[p].ok /\ AnsweredSuccess(p)
        /\ IsSuccess(result[p])
        /\ NumCalls(p, "update_billing_to_settled") = 1

\* C2: an invocation answered with a response that is not ok and carries
\* err.ec = c calls update_billing_error once, with (merchant_code,
\* user_code, c), never insert_debit_history nor update_billing_to_settled,
\* and returns statusCode 500.
C2_ProviderRejected ==
    \A p \in Procs :
        (Ended(p) /\ AnsweredRejected(p)) =>
            /\ NumCalls(p, "update_billing_error") = 1
            /\ \A k \in CallsOf(p, "update_billing_error") :
                  /\ calls[p][k].merchant_code = Interp(event[p][1].data.merchant_code)
                  /\ calls[p][k].user_code = Interp(event[p][1].data.user_code)
                  /\ calls[p][k].text = response[p].ec
            /\ NumCalls(p, "insert_debit_history") = 0
            /\ NumCalls(p, "update_billing_to_settled") = 0
            /\ IsFailure(result[p])

C2_Witness ==
    \E p \in Procs :
        /\ Ended(p) /\ AnsweredRejected(p) /\ response[p].ec = E001
        /\ \E k \in CallsOf(p, "update_billing_error") : calls[p][k].text = E001
        /\ IsFailure(result[p])

\* C3: an invocation answered HTTP-ok with a body status other than 1 calls
\* insert_debit_history once, then update_billing_error once with the marker
\* "error", never update_billing_to_settled, and returns statusCode 500.
C3_LogicalFailure ==
    \A p \in Procs :
        (Ended(p) /\ AnsweredFailure(p)) =>
            /\ NumCalls(p, "insert_debit_history") = 1
            /\ NumCalls(p, "update_billing_error") = 1
            /\ \A i \in CallsOf(p, "insert_debit_history"),
                  j \in CallsOf(p, "update_billing_error") :
                  i < j /\ calls[p][j].text = <<"e", "r", "r", "o", "r">>
            /\ NumCalls(p, "update_billing_to_settled") = 0
            /\ IsFailure(result[p])

C3_Witness ==
    \E p \in Procs :
        /\ Ended(p) /\ AnsweredFailure(p) /\ IsFailure(result[p])
        /\ NumCalls(p, "insert_debit_history") = 1
        /\ NumCalls(p, "update_billing_error") = 1

----------------------------------------------------------------------------
\* C4 (as claimed): when an invocation ends after the provider answered
\* HTTP-ok with status 1 for a billing record that was PENDING, the record is
\* FINISHED with Settlement_FLG = SUCCESS or the result is statusCode 500,
\* whatever the storage writes did.
C4_NoSilentDivergence ==
    \A p \in Procs :
        (Ended(p) /\ AnsweredSuccess(p) /\ pending_at_start[p] # {}) =>
            \/ \A i \in pending_at_start[p] :
                  /\ tbl_user_payment[i].Billing_FLG = BILLING_FLAG_FINISHED
                  /\ tbl_user_payment[i].Settlement_FLG = SETTLEMENT_SUCCESS
            \/ IsFailure(result[p])

\* the four ways parse_message rejects a record, read off the record
Malformed(record) ==
    \/ ~record.json
    \/ \E i \in 1..Len(required_fields) : record.data[required_fields[i]] \in {Absent, Null}
    \/ record.data.amount.t = "str" /\ ~PyFloat(record.data.amount.v).ok

\* C5: when parse_message fails (invalid JSON, missing field, null field,
\* invalid amount) the handler makes no external call, leaves both tables as
\* they are and returns ERROR_CODE_REQUEST.
C5_ParseFailureNoEffect ==
    /\ [](\A p \in Procs :
            (Ended(p) /\ Len(event[p]) = 1 /\ Malformed(event[p][1])) =>
                calls[p] = <<>> /\ result[p] = ERROR_CODE_REQUEST)
    /\ [][invocations' # invocations =>
            UNCHANGED <<tbl_user_payment, tbl_debithistory>>]_vars

C5_Witness ==
    \E p \in Procs :
        /\ Ended(p) /\ Len(event[p]) = 1 /\ event[p][1].json
        /\ event[p][1].data.merchant_code = Null
        /\ calls[p] = <<>> /\ result[p] = ERROR_CODE_REQUEST

\* C6 (as claimed): whatever the number of records, every invocation ends
\* with a returned result that has a statusCode and a body.
C6_AlwaysReturns ==
    \A p \in Procs :
        Ended(p) => /\ result[p].kind = "return"
                    /\ result[p].statusCode \in {200, 500}
                    /\ result[p].body # ""

\* C6 (amended): an invocation with exactly one record ends with a returned
\* result that has a statusCode and a body, whatever parsing, the HTTP call
\* and the storage writes did; with any other number of records the
\* assertion of line 52 raises AssertionError out of the handler.
C6_ReturnsForOneRecord ==
    \A p \in Procs :
        Ended(p) =>
            IF Len(event[p]) = 1
            THEN /\ result[p].kind = "return"
                 /\ result[p].statusCode \in {200, 500}
                 /\ result[p].body # ""
            ELSE result[p] = Escaped("AssertionError")

C6_Witness ==
    \E p \in Procs :
        /\ Ended(p) /\ Len(event[p]) = 1 /\ IsFailure(result[p])
        /\ \E k \in CallsOf(p, "update_billing_error") : ~calls[p][k].done

\* C7: the result is a function of the message and of the provider's
\* response alone: statusCode 200 exactly when the message parsed, the
\* response was ok and its status was 1, ERROR_CODE_REQUEST otherwise,
\* whichever of the storage writes failed.
C7_StorageFailureKeepsOutcome ==
    \A p \in Procs :
        (Ended(p) /\ Len(event[p]) = 1) =>
            result[p] = IF parse_message(event[p][1]).ok /\ AnsweredSuccess(p)
                        THEN SuccessResponse
                        ELSE ERROR_CODE_REQUEST

C7_Witness ==
    \E p \in Procs :
        /\ Ended(p) /\ AnsweredSuccess(p) /\ IsSuccess(result[p])
        /\ \E k \in CallsOf(p, "insert_debit_history") : ~calls[p][k].done
        /\ \E k \in CallsOf(p, "update_billing_to_settled") : ~calls[p][k].done

----------------------------------------------------------------------------
\* C8: when requests.post raises, the handler calls none of
\* insert_debit_history, update_billing_to_settled, update_billing_error, the
\* step leaves both tables as they are, and the result is statusCode 500.
C8_TransportErrorNoWrite ==
    /\ [](\A p \in Procs :
            (Ended(p) /\ response[p].raised) =>
                /\ Len(calls[p]) = 1
                /\ calls[p][1].op = "send_request_debit"
                /\ IsFailure(result[p]))
    /\ [][\A p \in Procs :
            (pc[p] = "send_request_debit" /\ response'[p].raised) =>
                /\ pc'[p] = "done"
                /\ UNCHANGED <<tbl_user_payment, tbl_debithistory>>]_vars

C8_Witness ==
    \E p \in Procs :
        /\ Ended(p) /\ response[p].raised /\ IsFailure(result[p])
        /\ pending_at_start[p] # {}
        /\ \A i \in pending_at_start[p] :
              tbl_user_payment[i].Billing_FLG = BILLING_FLAG_PENDING

\* the provider answered p's request with an HTTP response of any kind
ResponseReceived(p) ==
    \E k \in CallsOf(p, "send_request_debit") : calls[p][k].done

\* C9 (as claimed): an invocation writes one history row when an HTTP
\* response was received, whatever the response, and none when processing
\* failed before the HTTP call was made.
C9_HistoryPerResponse ==
    \A p \in Procs :
        Ended(p) =>
            IF ResponseReceived(p)
            THEN /\ NumCalls(p, "insert_debit_history") = 1
                 /\ \A k \in CallsOf(p, "insert_debit_history") : calls[p][k].rows = 1
            ELSE NumCalls(p, "insert_debit_history") = 0

\* C9 (amended): insert_debit_history is called once when the response was
\* HTTP-ok with a JSON body, whether its status is 1 or not, and it writes
\* its row exactly when the storage write succeeds; it is not called when
\* the response was not ok or not JSON, nor when processing failed before a
\* response was received.
C9_HistoryPerOkResponse ==
    \A p \in Procs :
        Ended(p) =>
            /\ NumCalls(p, "insert_debit_history") =
                  (IF Answered(p) /\ response[p].ok THEN 1 ELSE 0)
            /\ \A k \in CallsOf(p, "insert_debit_history") :
                  calls[p][k].rows = (IF calls[p][k].done THEN 1 ELSE 0)

C9_Witness ==
    \E p, q \in Procs :
        /\ Ended(p) /\ AnsweredFailure(p) /\ NumCalls(p, "insert_debit_history") = 1
        /\ Ended(q) /\ AnsweredRejected(q) /\ NumCalls(q, "insert_debit_history") = 0

\* p's step is a call of update_billing_to_settled or update_billing_error
\* for a key all of whose billing rows are FINISHED
UpdateOfFinished(p) ==
    /\ Len(calls'[p]) = Len(calls[p]) + 1
    /\ LET c == calls'[p][Len(calls'[p])]
           rows == {i \in DOMAIN tbl_user_payment :
                       /\ tbl_user_payment[i].Merchant_Code = c.merchant_code
                       /\ tbl_user_payment[i].User_Code = c.user_code}
       IN  /\ c.op \in {"update_billing_to_settled", "update_billing_error"}
           /\ rows # {}
           /\ \A i \in rows : tbl_user_payment[i].Billing_FLG = BILLING_FLAG_FINISHED

\* C10: no step changes a billing row whose Billing_FLG is FINISHED, and an
\* update call for a key whose rows are FINISHED changes 0 rows and lets no
\* exception out.
C10_FinishedAbsorbing ==
    [][/\ \A i \in DOMAIN tbl_user_payment :
            tbl_user_payment[i].Billing_FLG = BILLING_FLAG_FINISHED =>
                tbl_user_payment'[i] = tbl_user_payment[i]
       /\ \A p \in Procs :
            UpdateOfFinished(p) =>
                /\ calls'[p][Len(calls'[p])].rows = 0
                /\ tbl_user_payment' = tbl_user_payment
                /\ result'[p].kind # "raise"]_vars

C10_Witness ==
    \E p \in Procs, i \in DOMAIN tbl_user_payment :
        /\ tbl_user_payment[i].Billing_FLG = BILLING_FLAG_FINISHED
        /\ tbl_user_payment[i].Settlement_FLG = SETTLEMENT_SUCCESS
        /\ \E k \in CallsOf(p, "update_billing_error") :
              /\ calls[p][k].merchant_code = tbl_user_payment[i].Merchant_Code
              /\ calls[p][k].user_code = tbl_user_payment[i].User_Code
              /\ calls[p][k].done
              /\ calls[p][k].rows = 0

----------------------------------------------------------------------------
\* C11 (as claimed): every call of update_billing_to_settled or
\* update_billing_error changes 0 or 1 rows of TBL_USER_PAYMENT, also when
\* several rows share the merchant_code and user_code.
C11_AtMostOneRow ==
    \A p \in Procs :
        \A k \in CallsOf(p, "update_billing_to_settled")
                 \cup CallsOf(p, "update_billing_error") :
            calls[p][k].rows \in {0, 1}

----------------------------------------------------------------------------
(* parse_message on its own, as the tests call it: the record is drawn from *)
(* ParseInputs, the one step applies parse_message to it                    *)

\* longest amount text that is built from AmountChars
MaxAmountLen == 4

AmountChars == {"-", ".", "0", "1", "9", "a"}

RECURSIVE Texts(_)
Texts(n) ==
    IF n = 0 THEN {<<>>}
    ELSE LET shorter == Texts(n - 1)
         IN  shorter \cup {Append(t, c) : t \in shorter, c \in AmountChars}

\* the amounts of the tests and of the specification's examples
ExampleAmounts ==
    { Str(<<"1", "0", "0", "0", ".", "9", "9">>),
      Str(<<"1", "0", "0", "0", ".", "5", "0">>),
      Str(<<"1", "0", "0", "0">>),
      Str(<<"5", "0", "0", ".", "0", "0">>),
      Str(<<"-", "1", "0", "0", "0", ".", "9", "9">>),
      Str(<<"i", "n", "v", "a", "l", "i", "d">>),
      Str(<<"i", "n", "f">>), Str(<<"-", "i", "n", "f">>), Str(<<"n", "a", "n">>),
      Num(1000), Num(0), Num(0 - 3) }

AmountInputs == {Str(t) : t \in Texts(MaxAmountLen)} \cup ExampleAmounts

\* every combination of present, absent and null fields with a few amounts,
\* and every amount in an otherwise valid message
ParseInputs ==
    {InvalidJson}
    \cup {JsonBody(Dict(b, m, u, d, a)) :
            b \in {B1, Absent, Null}, m \in {M1, Absent, Null},
            u \in {U1, Absent, Null}, d \in {D42, Absent, Null},
            a \in {Str(<<"1", "0", "0", "0", ".", "5", "0">>), Str(<<"a">>), Absent, Null}}
    \cup {Valid(M1, a) : a \in AmountInputs}

InitParse ==
    /\ tbl_user_payment = [i \in 1..NumRows |-> Row(M1.v, U1.v)]
    /\ tbl_debithistory = EmptyBag
    /\ mysql_connection = [p \in Procs |-> "none"]
    /\ pc = [p \in Procs |-> "idle"]
    /\ \E record \in ParseInputs :
          event = [p \in Procs |-> IF p = "p1" THEN <<record>> ELSE <<>>]
    /\ parsed = [p \in Procs |-> NotParsed]
    /\ response = [p \in Procs |-> NoResponse]
    /\ calls = [p \in Procs |-> <<>>]
    /\ result = [p \in Procs |-> NoResult]
    /\ pending_at_start = [p \in Procs |-> {}]
    /\ invocations = 0

\* parse_message(record), lines 87-119
ParseMessage(p) ==
    /\ pc[p] = "idle"
    /\ Len(event[p]) = 1
    /\ parsed' = [parsed EXCEPT ![p] = parse_message(event[p][1])]
    /\ pc' = [pc EXCEPT ![p] = "parsed"]
    /\ UNCHANGED <<tbl_user_payment, tbl_debithistory, mysql_connection, event,
                   response, calls, result, pending_at_start, invocations>>

NextParse == \E p \in Procs : ParseMessage(p)

SpecParse == InitParse /\ [][NextParse]_vars

\* the dict of the record p has parsed
ParsedData(p) == event[p][1].data

\* parse_message has returned or raised for p's record, which was JSON
ParsedJson(p) == pc[p] = "parsed" /\ event[p][1].json

\* the required fields of the record that are absent or null, by position
BadFields(data) ==
    {i \in 1..Len(required_fields) : data[required_fields[i]] \in {Absent, Null}}

\* C12 (as claimed): for every required field f, whatever the other fields
\* hold, a message without f fails with the missing-field error naming f and
\* a message with f null fails with the null-field error naming f.
C12_EveryBadFieldNamed ==
    \A p \in Procs :
        ParsedJson(p) =>
            \A i \in 1..Len(required_fields) :
                LET f == required_fields[i]
                IN  /\ ParsedData(p)[f] = Absent =>
                          parsed[p] = ParseError("Missing required field", f)
                    /\ ParsedData(p)[f] = Null =>
                          parsed[p] = ParseError("cannot be null", f)

\* C12 (amended): a JSON message in which some required field is absent or
\* null fails with an error that names the first such field in the order
\* billing_id, merchant_code, user_code, direct_debit_id, amount: the
\* missing-field error when that field is absent, the null-field error when
\* it is null; the fields after it are not looked at.
C12_FirstBadFieldNamed ==
    \A p \in Procs :
        (ParsedJson(p) /\ BadFields(ParsedData(p)) # {}) =>
            LET i == CHOOSE i \in BadFields(ParsedData(p)) :
                        \A j \in BadFields(ParsedData(p)) : i <= j
                f == required_fields[i]
            IN  parsed[p] = IF ParsedData(p)[f] = Absent
                            THEN ParseError("Missing required field", f)
                            ELSE ParseError("cannot be null", f)

C12_Witness ==
    \E p \in Procs :
        /\ ParsedJson(p)
        /\ ParsedData(p).merchant_code = Null
        /\ ParsedData(p).billing_id # Absent /\ ParsedData(p).billing_id # Null
        /\ ParsedData(p).amount = Absent
        /\ parsed[p] = ParseError("cannot be null", "merchant_code")

----------------------------------------------------------------------------
RECURSIVE Pow10(_)
Pow10(k) == IF k = 0 THEN 1 ELSE 10 * Pow10(k - 1)

\* the text without its point
WithoutPoint(u) == SelectSeq(u, LAMBDA c : c # ".")

\* a decimal text: an optional sign, then digits with at most one point and
\* at least one digit
IsDecimalText(t) ==
    LET u == Unsigned(t)
    IN  /\ \A i \in 1..Len(u) : IsDigit(u[i]) \/ u[i] = "."
        /\ Cardinality({i \in 1..Len(u) : u[i] = "."}) <= 1
        /\ \E i \in 1..Len(u) : IsDigit(u[i])

\* the integer n is the value of the decimal text t truncated toward zero:
\* with t = +-N / 10^k, |n| * 10^k <= N < (|n| + 1) * 10^k, and n has the
\* sign of t unless it is 0
IsTruncationOf(n, t) ==
    LET u == Unsigned(t)
        k == IF DotAt(u) = 0 THEN 0 ELSE Len(u) - DotAt(u)
        N == DigitsValue(WithoutPoint(u))
        a == IF n < 0 THEN 0 - n ELSE n
    IN  /\ a * Pow10(k) <= N
        /\ N < (a + 1) * Pow10(k)
        /\ n < 0 => IsNegative(t)
        /\ n > 0 => ~IsNegative(t)

----------------------------------------------------------------------------
\* C14: every invocation issues at most one HTTP POST: the handler stands
\* before send_request_debit only while it has made no request, so whatever
\* the request gave (an exception, a response that is not ok, a status other
\* than 1) it is not made a second time.
C14_AtMostOnePost ==
    \A p \in Procs :
        /\ NumCalls(p, "send_request_debit") <= 1
        /\ pc[p] = "send_request_debit" => NumCalls(p, "send_request_debit") = 0
        /\ response[p] # NoResponse => NumCalls(p, "send_request_debit") = 1

C14_Witness ==
    \E p \in Procs :
        /\ Ended(p)
        /\ response[p] = TransportError
        /\ IsFailure(result[p])
        /\ NumCalls(p, "send_request_debit") = 1

----------------------------------------------------------------------------
BillingUpdates(p) ==
    CallsOf(p, "update_billing_to_settled") \cup CallsOf(p, "update_billing_error")

SameKey(c, d) == c.merchant_code = d.merchant_code /\ c.user_code = d.user_code

\* C15: the handler asks the provider whatever the state of the billing
\* record, so two invocations in two processes for the same record can both
\* debit and both record history; of their billing updates for one key at
\* most one changes a row.
C15_OnlyFirstUpdateTakesEffect ==
    /\ \A p \in Procs :
          (Ended(p) /\ parsed[p].ok
           /\ get_request_body(parsed[p].direct_debit_id, parsed[p].amount).ok)
              => NumCalls(p, "send_request_debit") = 1
    /\ \A p, q \in Procs :
          p # q =>
             \A i \in BillingUpdates(p), j \in BillingUpdates(q) :
                 SameKey(calls[p][i], calls[q][j]) =>
                     ~(calls[p][i].rows > 0 /\ calls[q][j].rows > 0)

C15_Witness ==
    \E p, q \in Procs :
        /\ p # q
        /\ Ended(p) /\ Ended(q)
        /\ pending_at_start[p] # {} /\ pending_at_start[q] # {}
        /\ AnsweredSuccess(p) /\ AnsweredSuccess(q)
        /\ Len(calls[p]) = 3 /\ Len(calls[q]) = 3
        /\ SameKey(calls[p][3], calls[q][3])
        /\ calls[p][2].op = "insert_debit_history" /\ calls[p][2].rows = 1
        /\ calls[q][2].op = "insert_debit_history" /\ calls[q][2].rows = 1
        /\ calls[p][3].done /\ calls[p][3].rows > 0
        /\ calls[q][3].done /\ calls[q][3].rows = 0
        /\ BagCardinality(tbl_debithistory) = 2

----------------------------------------------------------------------------
\* C16: whenever the provider's response is not ok, whatever its body, the
\* invocation calls update_billing_error and reports failure.
C16_NotOkMarksFailed ==
    \A p \in Procs :
        (Ended(p) /\ NumCalls(p, "send_request_debit") = 1
         /\ ~response[p].raised /\ ~response[p].ok)
            => /\ NumCalls(p, "update_billing_error") >= 1
               /\ IsFailure(result[p])

----------------------------------------------------------------------------
\* C17: the effects of an invocation come in the order parse, HTTP call,
\* ledger writes: the first call is the HTTP call, made after a successful
\* parse, every ledger write comes after a response was received, and after
\* an ok response a billing update comes only after a history insert.
C17_EffectOrder ==
    \A p \in Procs :
        /\ calls[p] # <<>> =>
              /\ parsed[p].ok
              /\ calls[p][1].op = "send_request_debit"
        /\ \A k \in DOMAIN calls[p] :
              calls[p][k].op # "send_request_debit" =>
                  /\ k > 1
                  /\ calls[p][1].done
        /\ response[p].ok =>
              \A k \in BillingUpdates(p) :
                  \E j \in CallsOf(p, "insert_debit_history") : j < k

C17_Witness ==
    \E p \in Procs :
        /\ Ended(p)
        /\ response[p].ok
        /\ Len(calls[p]) = 3
        /\ calls[p][1].op = "send_request_debit"
        /\ calls[p][2].op = "insert_debit_history"
        /\ calls[p][3].op = "update_billing_error"

----------------------------------------------------------------------------
\* C18: an invocation attempts at most one billing-status update:
\* update_billing_to_settled and update_billing_error together are called at
\* most once.
C18_AtMostOneBillingUpdate ==
    \A p \in Procs :
        NumCalls(p, "update_billing_to_settled")
            + NumCalls(p, "update_billing_error") <= 1

C18_Witness ==
    \E p \in Procs :
        /\ Ended(p)
        /\ AnsweredRejected(p)
        /\ response[p].has_status
        /\ NumCalls(p, "update_billing_error") = 1
        /\ NumCalls(p, "update_billing_to_settled") = 0

----------------------------------------------------------------------------
\* this step appends a call of execution_query to p's log
StorageStep(p) ==
    /\ Len(calls'[p]) = Len(calls[p]) + 1
    /\ calls'[p][Len(calls'[p])].op # "send_request_debit"

LastCall(p) == calls'[p][Len(calls'[p])]

\* execution_query returns True exactly when the statement was executed and
\* committed on a connection: the connection is open afterwards and the
\* statement is one the server accepts; when it returns False the tables are
\* as they were
ReturnsTrueWhenCommitted(p) ==
    StorageStep(p) =>
        /\ LastCall(p).done <=>
              /\ mysql_connection'[p] = "open"
              /\ ~HasQuote(LastCall(p).merchant_code)
              /\ ~HasQuote(LastCall(p).user_code)
              /\ ~HasQuote(LastCall(p).text)
        /\ LastCall(p).op = "insert_debit_history" =>
              (LastCall(p).done <=> tbl_debithistory' # tbl_debithistory)
        /\ ~LastCall(p).done =>
              UNCHANGED <<tbl_user_payment, tbl_debithistory>>

\* a history insert that failed is followed by the billing update
FailedInsertGoesOn(p) ==
    \A k \in CallsOf(p, "insert_debit_history") :
        (~calls[p][k].done /\ response[p].has_status) =>
            /\ pc[p] # "done" => pc[p] \in {"update_billing_to_settled",
                                            "update_billing_error"}
            /\ pc[p] = "done" => k + 1 \in BillingUpdates(p)

\* C19: execution_query never raises; it returns True exactly when the
\* connection was obtained and the statement executed and committed, False
\* otherwise, and a failed history insert does not stop the billing update
\* that follows.
C19_NeverRaises ==
    /\ [](\A p \in Procs : FailedInsertGoesOn(p))
    /\ [][\A p \in Procs : ReturnsTrueWhenCommitted(p)]_vars

C19_Witness ==
    \E p \in Procs :
        /\ Ended(p)
        /\ Len(calls[p]) = 3
        /\ calls[p][2].op = "insert_debit_history" /\ ~calls[p][2].done
        /\ calls[p][3].op = "update_billing_to_settled"
        /\ calls[p][3].done /\ calls[p][3].rows > 0
        /\ IsSuccess(result[p])

----------------------------------------------------------------------------
\* get_mysql_connection within one call of execution_query
ConnectsWhenNotOpen(p) ==
    StorageStep(p) =>
        /\ mysql_connection[p] = "open" => ~LastCall(p).opened
        /\ mysql_connection[p] # "open" =>
              \/ LastCall(p).opened
              \/ /\ mysql_connection'[p] = mysql_connection[p]
                 /\ ~LastCall(p).done
        /\ LastCall(p).done => (mysql_connection[p] = "open" \/ LastCall(p).opened)

\* C20: get_mysql_connection opens a connection exactly when none is cached
\* or the cached one is closed (the call fails when the connect does), and
\* returns the cached one otherwise: no connection is opened while the
\* cached one is open, and a statement is executed only on an open
\* connection.
C20_ConnectionReuse == [][\A p \in Procs : ConnectsWhenNotOpen(p)]_vars

C20_Witness ==
    \E p \in Procs :
        /\ Len(calls[p]) = 3
        /\ calls[p][2].opened /\ ~calls[p][2].done
        /\ calls[p][3].opened /\ calls[p][3].done
        /\ mysql_connection[p] = "open"

====
